---- MODULE Spec2Model ----
(***************************************************************************)
(* Model of the event-subscription machinery of tasit-action               *)
(* (packages/tasit-action/src/TasitAction.js): Subscription,               *)
(* TransactionSubscription and ContractSubscription.                       *)
(*                                                                         *)
(* A subscription keeps a Map of event name -> {listener} and attaches     *)
(* handlers to an ethers event emitter (the provider for transactions, the *)
(* contract for contract events).  Handlers are async functions; each      *)
(* invocation is a small process that is suspended at its awaits.          *)
(***************************************************************************)
EXTENDS Integers, Sequences, FiniteSets, TLC

(***************************************************************************)
(* Bounds of the exploration.                                              *)
(***************************************************************************)
MaxRegs == 1      \* successful registrations of an event handler
MaxNotifs == 2    \* notifications the transport delivers
MaxConf == 1      \* highest confirmation count a receipt carries

Subs == {"s1", "s2"}
Kinds == {"tx", "contract"}
Emitters == {"provider", "contract"}

\* the events the contract's interface declares
DeclaredEvents == {"Transfer"}
\* the event names callers try
EventNames == {"confirmation", "error", "Transfer"}
\* what a caller passes as a listener: a function, or a value that is none
ListenerArgs == {"function", "notFunction"}
\* what a call of a caller's event listener ends with: it returns ("none"),
\* it throws (or its promise rejects with) an Error, or with a nullish value.
\* A caller's error listener is taken to return.
Throws == {"none", "Error", "nullish"}
\* the hosts: in node the identifier `event` is not bound (reading it is a
\* ReferenceError); in a browser it is window.event: undefined or an Event
Hosts == {"node", "browser"}
\* the delays (ms) callers pass to setEventsTimeout; before any call the delay is
\* config.events.timeout
SettableTimeouts == {"500", "1000"}

VARIABLES
  host,           \* the host the module runs on
  kind,           \* kind[s]: "tx", "contract" or "none" (no such subscription)
  eventListeners, \* eventListeners[s]: the Map #eventListeners, in insertion order
  emitterEvents,  \* emitterEvents[e]: the handlers attached to emitter e, in order
  tx,             \* tx[s]: #tx is cached
  txConfirmed,    \* txConfirmed[s]: #txConfirmed
  timers,         \* timers[s]: armed setTimeout callbacks not yet fired
  inflight,       \* suspended handler invocations
  calls,          \* the calls made to the callers' listeners, in order
  threw,          \* the error the last call of the public API threw, or "none"
  chain,          \* chain[s]: confirmations of the transaction's receipt, 0: no receipt
  txPromise,      \* txPromise[s]: "pending", "resolved" or "rejected"
  delivering,     \* handlers the emitter still has to call for the current notification
  nextId,         \* nextId[s]: handler closures subscription s has created so far
  timeout,        \* timeout[s]: #timeout
  notifs,         \* notifications delivered so far
  firstBlock      \* firstBlock[s]: whether the receipt existed when the first
                  \* notification reached a handler of s: "none" before it

vars == <<host, kind, eventListeners, emitterEvents, tx, txConfirmed, timers,
          inflight, calls, threw, chain, txPromise, delivering, nextId, timeout, notifs,
          firstBlock>>

(***************************************************************************)
(* Map helpers: a Map is a sequence of [name, fn] in insertion order.      *)
(***************************************************************************)
MapHas(L, name) == \E i \in 1..Len(L) : L[i].name = name

MapGet(L, name) == L[CHOOSE i \in 1..Len(L) : L[i].name = name].fn

MapSet(L, name, fn) ==
  IF MapHas(L, name)
    THEN [i \in 1..Len(L) |-> IF L[i].name = name THEN [name |-> name, fn |-> fn] ELSE L[i]]
    ELSE Append(L, [name |-> name, fn |-> fn])

MapDelete(L, name) == SelectSeq(L, LAMBDA e : e.name # name)

\* subscribedEventNames
subscribedEventNames(L) == [i \in 1..Len(L) |-> L[i].name]

NameSet(L) == {L[i].name : i \in 1..Len(L)}

\* the emitter a subscription is built on
EmitterOf(k) == IF k = "tx" THEN "provider" ELSE "contract"

\* _toEthersEventName as it would be if it translated no name
toEthersEventNameIdentity(eventName) == eventName

\* _toEthersEventName
toEthersEventName(eventName) ==
  IF eventName = "confirmation" THEN "block" ELSE eventName

\* the emitter's on(tag, listener)
EmitterOn(E, tag, fn) == Append(E, [tag |-> tag, fn |-> fn])

\* the emitter's removal as it would be if off called removeAllListeners(tag)
EmitterRemoveAllListeners(E, tag, fn) == SelectSeq(E, LAMBDA a : a.tag # tag)

\* the emitter's removeListener(tag, listener): drops the first attachment of
\* that very function under that tag
EmitterRemoveListener(E, tag, fn) ==
  IF \E i \in 1..Len(E) : E[i].tag = tag /\ E[i].fn = fn
    THEN LET k == CHOOSE i \in 1..Len(E) :
                    /\ E[i].tag = tag /\ E[i].fn = fn
                    /\ \A j \in 1..(i-1) : ~(E[j].tag = tag /\ E[j].fn = fn)
         IN [i \in 1..(Len(E)-1) |-> IF i < k THEN E[i] ELSE E[i+1]]
    ELSE E

\* the value the identifier `event` has when off reads it
EventValues(h) == IF h = "node" THEN {"undeclared"} ELSE {"undefined", "truthy"}

(***************************************************************************)
(* Subscription.off: result [L, E, threw].                                 *)
(***************************************************************************)
off(L, E, eventName, ev) ==
  IF ev = "undeclared" THEN [L |-> L, E |-> E, threw |-> "ReferenceError"]
  ELSE IF ev = "undefined" THEN [L |-> L, E |-> E, threw |-> "none"]
  ELSE IF eventName # "error"
    THEN IF ~MapHas(L, eventName)
           THEN [L |-> L, E |-> E, threw |-> "TypeError"]
           ELSE [L |-> MapDelete(L, eventName),
                 E |-> EmitterRemoveListener(E, toEthersEventName(eventName),
                                             MapGet(L, eventName)),
                 threw |-> "none"]
    ELSE [L |-> MapDelete(L, eventName), E |-> E, threw |-> "none"]

(***************************************************************************)
(* Subscription.unsubscribe: forEach over the live Map, off for each name; *)
(* the first off that throws ends it.                                      *)
(***************************************************************************)
RECURSIVE unsubscribeFrom(_, _, _, _)
unsubscribeFrom(L, E, names, ev) ==
  IF names = <<>> THEN [L |-> L, E |-> E, threw |-> "none"]
  ELSE LET r == off(L, E, Head(names), ev)
       IN IF r.threw # "none" THEN r
          ELSE unsubscribeFrom(r.L, r.E, Tail(names), ev)

unsubscribe(L, E, ev) == unsubscribeFrom(L, E, subscribedEventNames(L), ev)

(***************************************************************************)
(* Entries of the log `calls`.                                             *)
(***************************************************************************)
\* the error listener is called with {error, eventName}
ErrorCall(s, err, eventName, n) ==
  [sub |-> s, to |-> "error", eventName |-> eventName, err |-> err, conf |-> 0,
   n |-> n, once |-> FALSE]

\* an event listener is called with {data}: the confirmations of the receipt
\* for a transaction, the arguments of log n for a contract event
ListenerCall(s, eventName, conf, n, once) ==
  [sub |-> s, to |-> "listener", eventName |-> eventName, err |-> "", conf |-> conf,
   n |-> n, once |-> once]

\* the handler's promise rejects: nobody awaits it, the host reports it
Rejection(s, eventName, n) ==
  [sub |-> s, to |-> "unhandledRejection", eventName |-> eventName, err |-> "", conf |-> 0,
   n |-> n, once |-> FALSE]

\* the timeout callback throws: the host reports it
Uncaught(s, eventName) ==
  [sub |-> s, to |-> "uncaughtException", eventName |-> eventName, err |-> "", conf |-> 0,
   n |-> 0, once |-> FALSE]

\* _emitErrorEvent as it would be if a missing error listener were an error
emitErrorEventThrowing(L, cs, s, err, eventName, n) ==
  IF ~MapHas(L, "error") THEN [calls |-> cs, threw |-> "Error"]
  ELSE IF MapGet(L, "error").listener = "notFunction"
    THEN [calls |-> cs, threw |-> "Error"]
  ELSE [calls |-> Append(cs, ErrorCall(s, err, eventName, n)), threw |-> "none"]

(***************************************************************************)
(* Subscription._emitErrorEvent: result [calls, threw].  A registered      *)
(* value that is no function cannot be called: a TypeError.                *)
(***************************************************************************)
emitErrorEvent(L, cs, s, err, eventName, n) ==
  IF ~MapHas(L, "error") THEN [calls |-> cs, threw |-> "none"]
  ELSE IF MapGet(L, "error").listener = "notFunction"
    THEN [calls |-> cs, threw |-> "Error"]
  ELSE [calls |-> Append(cs, ErrorCall(s, err, eventName, n)), threw |-> "none"]

\* _addErrorListener
addErrorListener(L, listener) ==
  MapSet(L, "error", [sub |-> "", id |-> 0, name |-> "error", once |-> FALSE,
                      listener |-> listener])

\* _addEventListener as it would be without the check for a registered name
addEventListenerNoDuplicateCheck(L, E, eventName, fn) ==
  IF eventName = "error" THEN [L |-> L, E |-> E, threw |-> "ReservedName"]
  ELSE [L |-> MapSet(L, eventName, fn),
        E |-> EmitterOn(E, toEthersEventName(eventName), fn),
        threw |-> "none"]

(***************************************************************************)
(* Subscription._addEventListener: result [L, E, threw].                   *)
(***************************************************************************)
addEventListener(L, E, eventName, fn) ==
  IF eventName = "error" THEN [L |-> L, E |-> E, threw |-> "ReservedName"]
  ELSE IF MapHas(L, eventName) THEN [L |-> L, E |-> E, threw |-> "Duplicate"]
  ELSE [L |-> Append(L, [name |-> eventName, fn |-> fn]),
        E |-> EmitterOn(E, toEthersEventName(eventName), fn),
        threw |-> "none"]

\* the closure ethersListener built by a registration
EthersListener(s, id, eventName, listener, once) ==
  [sub |-> s, id |-> id, name |-> eventName, once |-> once, listener |-> listener]

\* #addListener as it would be without the two checks of the trigger
txAddListenerNoTriggerCheck(s, L, E, t, id, eventName, listener, once) ==
  IF listener = "notFunction"
    THEN [L |-> L, E |-> E, timers |-> t, threw |-> "NotAFunction"]
  ELSE IF eventName = "error"
    THEN [L |-> addErrorListener(L, listener), E |-> E, timers |-> t, threw |-> "none"]
  ELSE LET r == addEventListener(L, E, eventName,
                                 EthersListener(s, id, eventName, listener, once))
       IN [L |-> r.L, E |-> r.E,
           timers |-> IF r.threw = "none" THEN t + 1 ELSE t,
           threw |-> r.threw]

(***************************************************************************)
(* TransactionSubscription.#addListener with #addConfirmationListener:     *)
(* result [L, E, timers, threw].                                           *)
(***************************************************************************)
txAddListener(s, L, E, t, id, eventName, listener, once) ==
  IF eventName \notin {"confirmation", "error"}
    THEN [L |-> L, E |-> E, timers |-> t, threw |-> "InvalidTrigger"]
  ELSE IF eventName = "error" /\ once
    THEN [L |-> L, E |-> E, timers |-> t, threw |-> "UseOn"]
  ELSE IF listener = "notFunction"
    THEN [L |-> L, E |-> E, timers |-> t, threw |-> "NotAFunction"]
  ELSE IF eventName = "error"
    THEN [L |-> addErrorListener(L, listener), E |-> E, timers |-> t, threw |-> "none"]
  ELSE LET r == addEventListener(L, E, eventName,
                                 EthersListener(s, id, eventName, listener, once))
       IN [L |-> r.L, E |-> r.E,
           timers |-> IF r.threw = "none" THEN t + 1 ELSE t,
           threw |-> r.threw]

\* #isEventValid as it would be if it looked no name up
isEventValidAlways(eventName) == TRUE

\* ContractSubscription.#isEventValid
isEventValid(eventName) == eventName = "error" \/ eventName \in DeclaredEvents

(***************************************************************************)
(* ContractSubscription.#addListener with #addContractEventListener.       *)
(***************************************************************************)
contractAddListener(s, L, E, t, id, eventName, listener, once) ==
  IF ~isEventValid(eventName)
    THEN [L |-> L, E |-> E, timers |-> t, threw |-> "EventNotFound"]
  ELSE IF eventName = "error" /\ once
    THEN [L |-> L, E |-> E, timers |-> t, threw |-> "UseOn"]
  ELSE IF eventName = "error"
    THEN [L |-> addErrorListener(L, listener), E |-> E, timers |-> t, threw |-> "none"]
  ELSE LET r == addEventListener(L, E, eventName,
                                 EthersListener(s, id, eventName, listener, once))
       IN [L |-> r.L, E |-> r.E, timers |-> t, threw |-> r.threw]

addListener(k, s, L, E, t, id, eventName, listener, once) ==
  IF k = "tx" THEN txAddListener(s, L, E, t, id, eventName, listener, once)
  ELSE contractAddListener(s, L, E, t, id, eventName, listener, once)

\* getEventsTimeout
getEventsTimeout(T, s) == T[s]

\* setEventsTimeout as it would be if #timeout were one field of the class
setEventsTimeoutStatic(T, s, ms) == [t \in DOMAIN T |-> ms]

\* setEventsTimeout
setEventsTimeout(T, s, ms) == [T EXCEPT ![s] = ms]

Live == {s \in Subs : kind[s] # "none"}

(***************************************************************************)
(* Initial state: one subscription, of either kind, just constructed.      *)
(***************************************************************************)
Init ==
  /\ host \in Hosts
  /\ \E k \in Kinds : kind = [s \in Subs |-> IF s = "s1" THEN k ELSE "none"]
  /\ eventListeners = [s \in Subs |-> <<>>]
  /\ emitterEvents = [e \in Emitters |-> <<>>]
  /\ tx = [s \in Subs |-> FALSE]
  /\ txConfirmed = [s \in Subs |-> FALSE]
  /\ timers = [s \in Subs |-> 0]
  /\ inflight = {}
  /\ calls = <<>>
  /\ threw = "none"
  /\ chain = [s \in Subs |-> 0]
  /\ txPromise = [s \in Subs |-> "pending"]
  /\ delivering = <<>>
  /\ nextId = [s \in Subs |-> 0]
  /\ timeout = [s \in Subs |-> "config.events.timeout"]
  /\ notifs = 0
  /\ firstBlock = [s \in Subs |-> "none"]

(***************************************************************************)
(* on(eventName, listener) / once(eventName, listener).                    *)
(***************************************************************************)
Registration(s, eventName, listener, once) ==
  addListener(kind[s], s, eventListeners[s], emitterEvents[EmitterOf(kind[s])],
              timers[s], nextId[s] + 1, eventName, listener, once)

Register(s, eventName, listener, once) ==
  LET e == EmitterOf(kind[s])
      r == Registration(s, eventName, listener, once)
      attached == r.threw = "none" /\ eventName # "error"
  IN /\ delivering = <<>>
     /\ attached => nextId[s] < MaxRegs
     /\ eventListeners' = [eventListeners EXCEPT ![s] = r.L]
     /\ emitterEvents' = [emitterEvents EXCEPT ![e] = r.E]
     /\ timers' = [timers EXCEPT ![s] = r.timers]
     /\ nextId' = IF attached THEN [nextId EXCEPT ![s] = @ + 1] ELSE nextId
     /\ threw' = r.threw
     /\ UNCHANGED <<host, kind, timeout, tx, txConfirmed, inflight, calls, chain, txPromise,
                    delivering, notifs, firstBlock>>

On == \E s \in Live, eventName \in EventNames, listener \in ListenerArgs :
        Register(s, eventName, listener, FALSE)

Once == \E s \in Live, eventName \in EventNames, listener \in ListenerArgs :
          Register(s, eventName, listener, TRUE)

(***************************************************************************)
(* off(eventName) called by the caller.                                    *)
(***************************************************************************)
OffCall(s, eventName, ev) ==
  LET e == EmitterOf(kind[s])
      r == off(eventListeners[s], emitterEvents[e], eventName, ev)
  IN /\ delivering = <<>>
     /\ eventListeners' = [eventListeners EXCEPT ![s] = r.L]
     /\ emitterEvents' = [emitterEvents EXCEPT ![e] = r.E]
     /\ threw' = r.threw
     /\ UNCHANGED <<host, kind, timeout, tx, txConfirmed, timers, inflight, calls, chain,
                    txPromise, delivering, nextId, notifs, firstBlock>>

Off == \E s \in Live, eventName \in EventNames, ev \in EventValues(host) :
         OffCall(s, eventName, ev)

(***************************************************************************)
(* unsubscribe() called by the caller.                                     *)
(***************************************************************************)
UnsubscribeCall(s, ev) ==
  LET e == EmitterOf(kind[s])
      r == unsubscribe(eventListeners[s], emitterEvents[e], ev)
  IN /\ delivering = <<>>
     /\ eventListeners' = [eventListeners EXCEPT ![s] = r.L]
     /\ emitterEvents' = [emitterEvents EXCEPT ![e] = r.E]
     /\ threw' = r.threw
     /\ UNCHANGED <<host, kind, timeout, tx, txConfirmed, timers, inflight, calls, chain,
                    txPromise, delivering, nextId, notifs, firstBlock>>

Unsubscribe == \E s \in Live, ev \in EventValues(host) : UnsubscribeCall(s, ev)

(***************************************************************************)
(* setEventsTimeout(ms) called by the caller on a TransactionSubscription. *)
(* A call that passes the delay already set changes nothing.               *)
(***************************************************************************)
SetEventsTimeoutCall(s, ms) ==
  /\ delivering = <<>>
  /\ kind[s] = "tx"
  /\ ms # getEventsTimeout(timeout, s)
  /\ timeout' = setEventsTimeout(timeout, s, ms)
  /\ threw' = "none"
  /\ UNCHANGED <<host, kind, eventListeners, emitterEvents, tx, txConfirmed, timers,
                 inflight, calls, chain, txPromise, delivering, nextId, notifs,
                 firstBlock>>

SetEventsTimeout == \E s \in Live, ms \in SettableTimeouts : SetEventsTimeoutCall(s, ms)

(***************************************************************************)
(* Handler invocations.                                                    *)
(***************************************************************************)
Invocation(fn, n, pc) == [fn |-> fn, n |-> n, pc |-> pc]

\* the catch block of ethersListener: reading error.message of a nullish
\* thrown value throws out of the handler; otherwise the error is emitted,
\* and what the emission throws leaves the handler too.
\* Result [calls, outcome].
catch(L, cs, s, thrown, eventName, n) ==
  IF thrown = "nullish" THEN [calls |-> cs, outcome |-> "rejected"]
  ELSE LET em == emitErrorEvent(L, cs, s, "listener", eventName, n)
       IN [calls |-> em.calls,
           outcome |-> IF em.threw = "none" THEN "fulfilled" ELSE "rejected"]

\* the branch for a missing receipt as it would be without #txConfirmed
displacedAsPending(L, cs, s, eventName, n) == [calls |-> cs, outcome |-> "fulfilled"]

\* the displacement branch: the emission is inside the try block, so what
\* it throws reaches the catch block
displaced(L, cs, s, eventName, n) ==
  LET em == emitErrorEvent(L, cs, s, "uncle", eventName, n)
  IN IF em.threw = "none" THEN [calls |-> em.calls, outcome |-> "fulfilled"]
     ELSE catch(L, em.calls, s, em.threw, eventName, n)

\* the branch for a missing receipt as it would be if it asked for no flag
noReceiptAlwaysReported(confirmed, L, cs, s, eventName, n) ==
  displaced(L, cs, s, eventName, n)

\* the branch for a missing receipt: a displacement if a receipt has been
\* observed, otherwise the transaction is still pending and the handler returns
noReceipt(confirmed, L, cs, s, eventName, n) ==
  IF confirmed THEN displaced(L, cs, s, eventName, n)
  ELSE [calls |-> cs, outcome |-> "fulfilled"]

\* #txConfirmed as it would be if it followed the last lookup
txConfirmedFollowing(confirmed, confirmations) == confirmations # 0

\* #txConfirmed after a lookup that answered: set by a receipt, otherwise kept
txConfirmedAfter(confirmed, confirmations) ==
  IF confirmations # 0 THEN TRUE ELSE confirmed

\* an invocation goes on ("suspended") or ends ("fulfilled", "rejected")
Finish(inv, cs, outcome) ==
  /\ calls' = IF outcome = "rejected"
               THEN Append(cs, Rejection(inv.fn.sub, inv.fn.name, inv.n))
               ELSE cs
  /\ threw' = "none"

(***************************************************************************)
(* The transport delivers a notification: the handlers attached under the  *)
(* tag at that moment are called one after the other.                      *)
(***************************************************************************)
Attached(E, tag, n) ==
  LET hs == SelectSeq(E, LAMBDA a : a.tag = tag)
  IN [i \in 1..Len(hs) |-> [fn |-> hs[i].fn, n |-> n]]

Notification(e, tag) ==
  /\ delivering = <<>>
  /\ notifs < MaxNotifs
  /\ Attached(emitterEvents[e], tag, notifs + 1) # <<>>
  /\ delivering' = Attached(emitterEvents[e], tag, notifs + 1)
  /\ notifs' = notifs + 1
  /\ firstBlock' = [s \in Subs |->
        IF firstBlock[s] = "none"
           /\ \E i \in 1..Len(emitterEvents[e]) :
                emitterEvents[e][i].tag = tag /\ emitterEvents[e][i].fn.sub = s
          THEN IF chain[s] > 0 THEN "mined" ELSE "unmined"
          ELSE firstBlock[s]]
  /\ threw' = "none"
  /\ UNCHANGED <<host, kind, timeout, eventListeners, emitterEvents, tx, txConfirmed, timers,
                 inflight, calls, chain, txPromise, nextId>>

BlockNotification == Notification("provider", "block")

LogNotification == \E tag \in DeclaredEvents : Notification("contract", tag)

(***************************************************************************)
(* The synchronous start of ethersListener, up to its first await.         *)
(***************************************************************************)
StartStep(ev) ==
  /\ delivering # <<>>
  /\ LET d == Head(delivering)
         h == d.fn
         s == h.sub
         e == EmitterOf(kind[s])
         L == eventListeners[s]
         E == emitterEvents[e]
         inv == Invocation(h, d.n, "start")
         o == IF h.once THEN off(L, E, h.name, ev)
              ELSE [L |-> L, E |-> E, threw |-> "none"]
     IN /\ delivering' = Tail(delivering)
        /\ eventListeners' = [eventListeners EXCEPT ![s] = o.L]
        /\ emitterEvents' = [emitterEvents EXCEPT ![e] = o.E]
        /\ IF o.threw # "none"
             THEN LET c == catch(L, calls, s, "Error", h.name, d.n)
                  IN /\ Finish(inv, c.calls, c.outcome)
                     /\ UNCHANGED inflight
           ELSE IF kind[s] = "tx"
             THEN /\ inflight' = inflight \cup
                        {Invocation(h, d.n, IF tx[s] THEN "awaitReceipt" ELSE "awaitTx")}
                  /\ Finish(inv, calls, "suspended")
           ELSE IF h.listener = "notFunction"
             THEN LET c == catch(o.L, calls, s, "Error", h.name, d.n)
                  IN /\ Finish(inv, c.calls, c.outcome)
                     /\ UNCHANGED inflight
           ELSE /\ inflight' = inflight \cup {Invocation(h, d.n, "awaitListener")}
                /\ Finish(inv, Append(calls, ListenerCall(s, h.name, 0, d.n, h.once)),
                          "suspended")
  /\ UNCHANGED <<host, kind, timeout, tx, txConfirmed, timers, chain, txPromise, nextId, notifs,
                 firstBlock>>

HandlerStart == \E ev \in EventValues(host) : StartStep(ev)

(***************************************************************************)
(* `this.#tx = await this.#txPromise` resumes: the awaiters of one promise *)
(* resume in the order they awaited.                                       *)
(***************************************************************************)
TxStep(inv) ==
  LET s == inv.fn.sub
      L == eventListeners[s]
  IN /\ delivering = <<>>
     /\ inv.pc = "awaitTx"
     /\ txPromise[s] # "pending"
     /\ \A o \in inflight : (o.pc = "awaitTx" /\ o.fn.sub = s) => o.n >= inv.n
     /\ IF txPromise[s] = "resolved"
          THEN /\ tx' = [tx EXCEPT ![s] = TRUE]
               /\ inflight' = (inflight \ {inv}) \cup
                                {Invocation(inv.fn, inv.n, "awaitReceipt")}
               /\ Finish(inv, calls, "suspended")
          ELSE LET c == catch(L, calls, s, "Error", inv.fn.name, inv.n)
               IN /\ inflight' = inflight \ {inv}
                  /\ Finish(inv, c.calls, c.outcome)
                  /\ UNCHANGED tx
     /\ UNCHANGED <<host, kind, timeout, eventListeners, emitterEvents, txConfirmed, timers,
                    chain, txPromise, delivering, nextId, notifs, firstBlock>>

ResumeTx == \E inv \in inflight : TxStep(inv)

(***************************************************************************)
(* `await this.#provider.getTransactionReceipt(...)` resumes: the lookup   *)
(* failed, or it gives the receipt the chain has now.                      *)
(***************************************************************************)
ReceiptStep(inv, lookup) ==
  LET s == inv.fn.sub
      L == eventListeners[s]
  IN /\ delivering = <<>>
     /\ inv.pc = "awaitReceipt"
     /\ IF lookup = "fails"
          THEN LET c == catch(L, calls, s, "Error", inv.fn.name, inv.n)
               IN /\ inflight' = inflight \ {inv}
                  /\ Finish(inv, c.calls, c.outcome)
                  /\ UNCHANGED txConfirmed
        ELSE IF chain[s] # 0
          THEN /\ txConfirmed' = [txConfirmed EXCEPT ![s] = txConfirmedAfter(@, chain[s])]
               /\ inflight' = (inflight \ {inv}) \cup
                                {Invocation(inv.fn, inv.n, "awaitListener")}
               /\ Finish(inv, Append(calls, ListenerCall(s, inv.fn.name, chain[s], inv.n,
                                                         inv.fn.once)),
                         "suspended")
        ELSE LET c == noReceipt(txConfirmed[s], L, calls, s, inv.fn.name, inv.n)
             IN /\ inflight' = inflight \ {inv}
                /\ Finish(inv, c.calls, c.outcome)
                /\ txConfirmed' = [txConfirmed EXCEPT ![s] = txConfirmedAfter(@, chain[s])]
     /\ UNCHANGED <<host, kind, timeout, eventListeners, emitterEvents, tx, timers,
                    chain, txPromise, delivering, nextId, notifs, firstBlock>>

ResumeReceipt == \E inv \in inflight, lookup \in {"fails", "answers"} :
                   ReceiptStep(inv, lookup)

(***************************************************************************)
(* `await listener(message)` resumes: the listener returned, or it threw   *)
(* (or its promise rejected).                                              *)
(***************************************************************************)
ListenerStep(inv, thrown) ==
  LET s == inv.fn.sub
      L == eventListeners[s]
  IN /\ delivering = <<>>
     /\ inv.pc = "awaitListener"
     /\ inflight' = inflight \ {inv}
     /\ IF thrown = "none" THEN Finish(inv, calls, "fulfilled")
        ELSE LET c == catch(L, calls, s, thrown, inv.fn.name, inv.n)
             IN Finish(inv, c.calls, c.outcome)
     /\ UNCHANGED <<host, kind, timeout, eventListeners, emitterEvents, tx, txConfirmed, timers,
                    chain, txPromise, delivering, nextId, notifs, firstBlock>>

ResumeListener == \E inv \in inflight, thrown \in Throws : ListenerStep(inv, thrown)

\* the timeout callback as it would be if a receipt cancelled the timeout
TimerStepUnlessConfirmed(s) ==
  LET em == IF txConfirmed[s] THEN [calls |-> calls, threw |-> "none"]
            ELSE emitErrorEvent(eventListeners[s], calls, s, "timeout", "confirmation", 0)
  IN /\ delivering = <<>>
     /\ timers[s] > 0
     /\ timers' = [timers EXCEPT ![s] = @ - 1]
     /\ calls' = IF em.threw = "none" THEN em.calls
                  ELSE Append(em.calls, Uncaught(s, "confirmation"))
     /\ threw' = "none"
     /\ UNCHANGED <<host, kind, timeout, eventListeners, emitterEvents, tx, txConfirmed,
                    inflight, chain, txPromise, delivering, nextId, notifs, firstBlock>>

\* the timeout callback as it would be if it emitted nothing
TimerStepSilent(s) ==
  /\ delivering = <<>>
  /\ timers[s] > 0
  /\ timers' = [timers EXCEPT ![s] = @ - 1]
  /\ threw' = "none"
  /\ UNCHANGED <<host, kind, timeout, eventListeners, emitterEvents, tx, txConfirmed, calls,
                 inflight, chain, txPromise, delivering, nextId, notifs, firstBlock>>

(***************************************************************************)
(* The timeout armed by #addConfirmationListener fires.                    *)
(***************************************************************************)
TimerStep(s) ==
  LET em == emitErrorEvent(eventListeners[s], calls, s, "timeout", "confirmation", 0)
  IN /\ delivering = <<>>
     /\ timers[s] > 0
     /\ timers' = [timers EXCEPT ![s] = @ - 1]
     /\ calls' = IF em.threw = "none" THEN em.calls
                  ELSE Append(em.calls, Uncaught(s, "confirmation"))
     /\ threw' = "none"
     /\ UNCHANGED <<host, kind, timeout, eventListeners, emitterEvents, tx, txConfirmed,
                    inflight, chain, txPromise, delivering, nextId, notifs, firstBlock>>

TimerFire == \E s \in Live : TimerStep(s)

(***************************************************************************)
(* The environment: the pending transaction settles, the transaction is    *)
(* mined or gains a confirmation, a reorganisation drops it.               *)
(***************************************************************************)
TxSettles == \E s \in Live, outcome \in {"resolved", "rejected"} :
  /\ delivering = <<>>
  /\ kind[s] = "tx"
  /\ txPromise[s] = "pending"
  /\ txPromise' = [txPromise EXCEPT ![s] = outcome]
  /\ threw' = "none"
  /\ UNCHANGED <<host, kind, timeout, eventListeners, emitterEvents, tx, txConfirmed, timers,
                 inflight, calls, chain, delivering, nextId, notifs, firstBlock>>

Mined == \E s \in Live :
  /\ delivering = <<>>
  /\ txPromise[s] = "resolved"
  /\ chain[s] < MaxConf
  /\ chain' = [chain EXCEPT ![s] = @ + 1]
  /\ threw' = "none"
  /\ UNCHANGED <<host, kind, timeout, eventListeners, emitterEvents, tx, txConfirmed, timers,
                 inflight, calls, txPromise, delivering, nextId, notifs, firstBlock>>

Reorg == \E s \in Live :
  /\ delivering = <<>>
  /\ chain[s] > 0
  /\ chain' = [chain EXCEPT ![s] = 0]
  /\ threw' = "none"
  /\ UNCHANGED <<host, kind, timeout, eventListeners, emitterEvents, tx, txConfirmed, timers,
                 inflight, calls, txPromise, delivering, nextId, notifs, firstBlock>>

Next ==
  \/ On \/ Once \/ Off \/ Unsubscribe
  \/ BlockNotification \/ LogNotification \/ HandlerStart
  \/ ResumeTx \/ ResumeReceipt \/ ResumeListener
  \/ TimerFire \/ TxSettles \/ Mined \/ Reorg

Spec == Init /\ [][Next]_vars

(***************************************************************************)
(* The event loop runs what is ready: an armed timer fires when its delay  *)
(* has passed, and the emitter calls every handler of the notification it  *)
(* is delivering.                                                          *)
(***************************************************************************)
SpecLive ==
  /\ Init /\ [][Next]_vars
  /\ WF_vars(TimerFire) /\ WF_vars(HandlerStart)

(***************************************************************************)
(* Two subscriptions built on one source: two ContractSubscriptions from   *)
(* subscribe() of one Contract, or two TransactionSubscriptions from write *)
(* calls of one Contract, which share its provider.                        *)
(***************************************************************************)
InitPair ==
  /\ host \in Hosts
  /\ \E k \in Kinds : kind = [s \in Subs |-> k]
  /\ eventListeners = [s \in Subs |-> <<>>]
  /\ emitterEvents = [e \in Emitters |-> <<>>]
  /\ tx = [s \in Subs |-> FALSE]
  /\ txConfirmed = [s \in Subs |-> FALSE]
  /\ timers = [s \in Subs |-> 0]
  /\ inflight = {}
  /\ calls = <<>>
  /\ threw = "none"
  /\ chain = [s \in Subs |-> 0]
  /\ txPromise = [s \in Subs |-> "pending"]
  /\ delivering = <<>>
  /\ nextId = [s \in Subs |-> 0]
  /\ timeout = [s \in Subs |-> "config.events.timeout"]
  /\ notifs = 0
  /\ firstBlock = [s \in Subs |-> "none"]

\* the two subscriptions are used while notifications arrive: the handlers
\* run up to their first await
NextPair ==
  \/ On \/ Once \/ Off \/ Unsubscribe
  \/ BlockNotification \/ HandlerStart

SpecPair == InitPair /\ [][NextPair]_vars

\* the callers configure and use the two subscriptions before any
\* notification arrives
NextTimeout ==
  \/ On \/ Once \/ Off \/ Unsubscribe \/ SetEventsTimeout \/ TimerFire

SpecTimeout == InitPair /\ [][NextTimeout]_vars

(***************************************************************************)
(* Properties.                                                             *)
(***************************************************************************)
\* the handlers subscription s has attached to its emitter
HandlersOf(s) ==
  SelectSeq(emitterEvents[EmitterOf(kind[s])], LAMBDA a : a.fn.sub = s)

Registered(s, name) == MapHas(eventListeners[s], name)

CallsWhere(P(_)) == {i \in 1..Len(calls) : P(calls[i])}

\* C1: registering (on or once) a listener for a name other than "error"
\* that is registered already fails with an error and leaves the registry,
\* the attached handlers and the armed timers as they are.
C1_DuplicateRejected ==
  \A s \in Live, n \in EventNames \ {"error"}, l \in ListenerArgs, o \in BOOLEAN :
    Registered(s, n) =>
      LET r == Registration(s, n, l, o)
      IN /\ r.threw # "none"
         /\ r.L = eventListeners[s]
         /\ r.E = emitterEvents[EmitterOf(kind[s])]
         /\ r.timers = timers[s]

\* a duplicate registration was tried and rejected, with the first
\* registration, its handler and (for a transaction) its timer in place
C1_Witness ==
  /\ threw = "Duplicate"
  /\ Registered("s1", "confirmation")
  /\ Len(HandlersOf("s1")) = 1
  /\ timers["s1"] = 1

\* C2: unsubscribe() completes and leaves subscribedEventNames() empty,
\* with every handler the subscription attached removed from the emitter.
C2_UnsubscribeEmpties ==
  [][\A s \in Live, ev \in EventValues(host) :
       UnsubscribeCall(s, ev) =>
         /\ threw' = "none"
         /\ eventListeners'[s] = <<>>
         /\ \A i \in 1..Len(emitterEvents'[EmitterOf(kind[s])]) :
              emitterEvents'[EmitterOf(kind[s])][i].fn.sub # s]_vars

\* C3: off(n) for a name n that has no registered listener never throws and
\* leaves the registry and the emitter's handlers as they are.
C3_OffUnregisteredReturns ==
  [][\A s \in Live, n \in EventNames, ev \in EventValues(host) :
       (~Registered(s, n) /\ OffCall(s, n, ev)) =>
         (threw' = "none" /\ UNCHANGED <<eventListeners, emitterEvents>>)]_vars

\* C4: when the receipt exists at the first block notification, a listener
\* registered via once("confirmation") is invoked at most once, with the
\* confirmations of a receipt, and once it has been invoked "confirmation"
\* is no longer among the subscribed names.
C4_OnceExactlyOnce ==
  \A s \in Live :
    LET onceCalls == CallsWhere(LAMBDA c : c.sub = s /\ c.to = "listener" /\ c.once
                                           /\ c.eventName = "confirmation")
    IN firstBlock[s] = "mined" =>
       /\ Cardinality(onceCalls) <= 1
       /\ \A i \in onceCalls : calls[i].conf \in 1..MaxConf
       /\ onceCalls # {} => ~Registered(s, "confirmation")

\* C5: with a persistent confirmation listener and an error listener
\* registered, a notification that finds no receipt after a receipt has been
\* observed calls the error listener with the displacement error tagged
\* "confirmation", and calls nothing else.
C5_DisplacementReported ==
  [][\A inv \in inflight :
       LET s == inv.fn.sub
       IN (/\ ReceiptStep(inv, "answers")
           /\ ~inv.fn.once
           /\ chain[s] = 0
           /\ txConfirmed[s]
           /\ Registered(s, "error"))
          => calls' = Append(calls, ErrorCall(s, "uncle", "confirmation", inv.n))]_vars

\* a receipt was delivered to the persistent listener and a later
\* notification was answered with the displacement error
C5_Witness ==
  \E i, j \in 1..Len(calls) :
    /\ i < j
    /\ calls[i].to = "listener" /\ ~calls[i].once
    /\ calls[j] = ErrorCall("s1", "uncle", "confirmation", 2)
    /\ calls[i].n = 1

TimeoutCalled(s) ==
  \E i \in 1..Len(calls) : calls[i] = ErrorCall(s, "timeout", "confirmation", 0)

\* C6: once the timer of a confirmation registration is armed and as long
\* as an error listener is registered, the error listener is eventually
\* called with the timeout error tagged "confirmation".
C6_TimeoutEventually ==
  \A s \in {"s1"} :
    (timers[s] > 0 /\ Registered(s, "error"))
      ~> (TimeoutCalled(s) \/ ~Registered(s, "error"))

\* the timeout error was delivered although no receipt was ever observed and
\* the confirmation listener never called
C6_Witness ==
  /\ TimeoutCalled("s1")
  /\ ~txConfirmed["s1"]
  /\ CallsWhere(LAMBDA c : c.to = "listener") = {}
  /\ notifs > 0

\* a failure found by a running handler while an error listener is registered
HandlerFails(inv) ==
  LET s == inv.fn.sub
  IN \/ \E thrown \in Throws \ {"none"} : ListenerStep(inv, thrown)
     \/ ReceiptStep(inv, "fails")
     \/ ReceiptStep(inv, "answers") /\ chain[s] = 0 /\ txConfirmed[s]
     \/ TxStep(inv) /\ txPromise[s] = "rejected"

\* C7: a failure found while a handler runs never leaves the handler: the
\* handler completes and the failure is one call of the error listener
\* with {error, eventName}, eventName being the firing event.
C7_FailuresFunnelled ==
  [][\A inv \in inflight :
       (HandlerFails(inv) /\ Registered(inv.fn.sub, "error")) =>
         \E err \in {"listener", "uncle"} :
           calls' = Append(calls, ErrorCall(inv.fn.sub, err, inv.fn.name, inv.n))]_vars

\* C8: a failure emitted while no error listener is registered is dropped:
\* nothing is thrown, no listener is called, the registry stays as it is.
C8_DroppedWithoutErrorListener ==
  [][\A s \in Live :
       ~Registered(s, "error") =>
         /\ TimerStep(s) => (calls' = calls /\ UNCHANGED eventListeners)
         /\ \A inv \in inflight :
              (inv.fn.sub = s /\ \/ ListenerStep(inv, "Error")
                                 \/ ReceiptStep(inv, "fails")
                                 \/ ReceiptStep(inv, "answers") /\ chain[s] = 0
                                                                /\ txConfirmed[s]
                                 \/ TxStep(inv) /\ txPromise[s] = "rejected")
                => (calls' = calls /\ UNCHANGED eventListeners)]_vars

\* the timer of a confirmation registration fired with no error listener
\* registered: nothing was called
C8_Witness ==
  /\ kind["s1"] = "tx"
  /\ nextId["s1"] = 1
  /\ timers["s1"] = 0
  /\ ~Registered("s1", "error")
  /\ calls = <<>>

\* C9: on a TransactionSubscription, on/once with a name other than
\* "confirmation" and "error", and once with "error", fail with an error and
\* change neither the registry nor the attached handlers nor the timers.
C9_InvalidTriggerRejected ==
  \A s \in Live, n \in EventNames, l \in ListenerArgs, o \in BOOLEAN :
    (kind[s] = "tx" /\ (n \notin {"confirmation", "error"} \/ (n = "error" /\ o)))
    => LET r == Registration(s, n, l, o)
       IN /\ r.threw \in {"InvalidTrigger", "UseOn"}
          /\ r.L = eventListeners[s]
          /\ r.E = emitterEvents[EmitterOf(kind[s])]
          /\ r.timers = timers[s]

\* an invalid trigger was rejected on a transaction subscription that has a
\* listener registered
C9_Witness ==
  /\ kind["s1"] = "tx"
  /\ threw \in {"InvalidTrigger", "UseOn"}
  /\ eventListeners["s1"] # <<>>

\* C10: on a ContractSubscription, on/once with a name that is neither
\* "error" nor a declared event fails with an error and changes neither the
\* registry nor the attached handlers; every subscribed name is "error" or
\* a declared event.
C10_UnknownEventRejected ==
  \A s \in Live :
    kind[s] = "contract" =>
      /\ NameSet(eventListeners[s]) \subseteq DeclaredEvents \cup {"error"}
      /\ \A n \in EventNames, l \in ListenerArgs, o \in BOOLEAN :
           (n # "error" /\ n \notin DeclaredEvents)
           => LET r == Registration(s, n, l, o)
              IN /\ r.threw = "EventNotFound"
                 /\ r.L = eventListeners[s]
                 /\ r.E = emitterEvents[EmitterOf(kind[s])]

\* an unknown event was rejected on a contract subscription that has a
\* declared event subscribed
C10_Witness ==
  /\ kind["s1"] = "contract"
  /\ threw = "EventNotFound"
  /\ Registered("s1", "Transfer")

\* C11: getEventsTimeout() of a TransactionSubscription returns the delay of
\* the last setEventsTimeout(ms) on that instance, the configured delay
\* before any, and setEventsTimeout on one instance leaves the delay every
\* other instance returns as it is.
C11_TimeoutPerInstance ==
  /\ \A s \in Subs : getEventsTimeout(timeout, s) = "config.events.timeout"
  /\ [][/\ \A s \in Live, ms \in SettableTimeouts :
            SetEventsTimeoutCall(s, ms) =>
              /\ getEventsTimeout(timeout', s) = ms
              /\ \A t \in Subs \ {s} :
                   getEventsTimeout(timeout', t) = getEventsTimeout(timeout, t)
        /\ (~ \E s \in Live, ms \in SettableTimeouts : SetEventsTimeoutCall(s, ms))
             => \A t \in Subs : getEventsTimeout(timeout', t) = getEventsTimeout(timeout, t)
       ]_vars

\* the two instances return different delays, each the one last set on it,
\* and a confirmation timer has been armed
C11_Witness ==
  /\ kind["s1"] = "tx" /\ kind["s2"] = "tx"
  /\ getEventsTimeout(timeout, "s1") = "1000"
  /\ getEventsTimeout(timeout, "s2") = "500"
  /\ timers["s1"] = 1

\* C12: a listener registered via once("confirmation") whose first block
\* notification arrives before the transaction is mined stays registered,
\* with its handler going on to look the receipt up, so that a later
\* notification can deliver the receipt to it.
C12_StaysUntilInvoked ==
  [][\A ev \in EventValues(host) :
       (/\ delivering # <<>>
        /\ Head(delivering).fn.once
        /\ kind[Head(delivering).fn.sub] = "tx"
        /\ chain[Head(delivering).fn.sub] = 0
        /\ ~txConfirmed[Head(delivering).fn.sub]
        /\ StartStep(ev))
       => LET d == Head(delivering)
          IN /\ MapHas(eventListeners'[d.fn.sub], "confirmation")
             /\ \E inv \in inflight' : inv.fn = d.fn /\ inv.n = d.n]_vars

\* C13: the timer armed by a registration of a confirmation listener is
\* never cancelled: only its firing consumes it, and when it fires with an
\* error listener registered, the error listener is called with the timeout
\* error tagged "confirmation", whatever has happened to the confirmation
\* listener.
C13_TimerNeverCancelled ==
  [][\A s \in Live :
       /\ timers'[s] < timers[s] => TimerStep(s)
       /\ (TimerStep(s) /\ Registered(s, "error"))
            => calls' = Append(calls, ErrorCall(s, "timeout", "confirmation", 0))]_vars

\* the timeout error was delivered after the confirmation listener had been
\* called with a receipt and had been detached
C13_Witness ==
  /\ txConfirmed["s1"]
  /\ ~Registered("s1", "confirmation")
  /\ HandlersOf("s1") = <<>>
  /\ \E i, j \in 1..Len(calls) :
       /\ i < j
       /\ calls[i].to = "listener" /\ calls[i].conf > 0
       /\ calls[j] = ErrorCall("s1", "timeout", "confirmation", 0)

\* C14: the calls of a persistent confirmation listener happen in the order
\* in which the transport delivered the block notifications they answer.
C14_CallsInDeliveryOrder ==
  \A i, j \in 1..Len(calls) :
    (/\ i < j
     /\ calls[i].to = "listener" /\ calls[j].to = "listener"
     /\ calls[i].sub = calls[j].sub
     /\ calls[i].eventName = "confirmation" /\ calls[j].eventName = "confirmation"
     /\ ~calls[i].once /\ ~calls[j].once)
    => calls[i].n < calls[j].n

\* C15: once off(n) has returned for a registered name n other than "error",
\* the subscription has no handler attached for n, so that no later
\* notification starts a handler for the removed registration.
C15_OffDetaches ==
  [][\A s \in Live, n \in EventNames \ {"error"}, ev \in EventValues(host) :
       (Registered(s, n) /\ OffCall(s, n, ev) /\ threw' = "none")
       => \A i \in 1..Len(emitterEvents'[EmitterOf(kind[s])]) :
            LET a == emitterEvents'[EmitterOf(kind[s])][i]
            IN ~(a.fn.sub = s /\ a.fn.name = n)]_vars

C17_PendingNoEffect ==
  [][\A inv \in inflight :
       LET s == inv.fn.sub
       IN (ReceiptStep(inv, "answers") /\ chain[s] = 0 /\ ~txConfirmed[s])
          => /\ calls' = calls
             /\ ~txConfirmed'[s]
             /\ inflight' = inflight \ {inv}
             /\ UNCHANGED <<eventListeners, emitterEvents, timers>>]_vars

\* a block notification found the transaction unmined and its handler
\* returned: with an error listener registered, nothing has been called
C17_Witness ==
  /\ firstBlock["s1"] = "unmined"
  /\ tx["s1"]
  /\ ~txConfirmed["s1"]
  /\ notifs = 1 /\ delivering = <<>> /\ inflight = {}
  /\ Registered("s1", "error") /\ Registered("s1", "confirmation")
  /\ calls = <<>>

\* C18: when the handler of a ContractSubscription listener registered via
\* once(n) calls the listener, n has been removed from the subscribed names.
C18_DetachedBeforeListener ==
  [][\A ev \in EventValues(host) :
       (/\ delivering # <<>>
        /\ Head(delivering).fn.once
        /\ kind[Head(delivering).fn.sub] = "contract"
        /\ StartStep(ev)
        /\ Len(calls') = Len(calls) + 1
        /\ calls'[Len(calls')].to = "listener")
       => ~MapHas(eventListeners'[Head(delivering).fn.sub], Head(delivering).fn.name)]_vars

\* C19: off and unsubscribe on one of two subscriptions built on the same
\* source, called by the caller or by a one-shot handler, leave the other
\* subscription's registry and attached handlers as they are, and a
\* notification is delivered to every handler still attached.
C19_OtherSubscriptionUntouched ==
  [][/\ \A s \in Live, t \in Live :
          (/\ t # s
           /\ \/ \E n \in EventNames, ev \in EventValues(host) : OffCall(s, n, ev)
              \/ \E ev \in EventValues(host) : UnsubscribeCall(s, ev)
              \/ /\ delivering # <<>>
                 /\ Head(delivering).fn.sub = s
                 /\ \E ev \in EventValues(host) : StartStep(ev))
          => /\ eventListeners'[t] = eventListeners[t]
             /\ HandlersOf(t)' = HandlersOf(t)
     /\ notifs' = notifs + 1
          => \A t \in Live : \A i \in 1..Len(HandlersOf(t)) :
               \E j \in 1..Len(delivering') :
                 delivering'[j] = [fn |-> HandlersOf(t)[i].fn, n |-> notifs']]_vars

\* the first subscription's persistent handler got the first notification
\* and was detached; the second notification reached the other
\* subscription's handler only
C19_Witness ==
  /\ notifs = 2 /\ delivering = <<>>
  /\ HandlersOf("s1") = <<>>
  /\ \E a, b \in inflight :
       /\ a.fn.sub = "s1" /\ ~a.fn.once /\ a.n = 1
       /\ b.fn.sub = "s2" /\ b.n = 2
  /\ ~ \E c \in inflight : c.fn.sub = "s1" /\ c.n = 2

\* C20: the names other than "error" in a subscription's registry are
\* exactly the names for which it has a handler attached to the emitter:
\* one handler each, attached under the translated name ("block" for
\* "confirmation") and being the function the record stores; no handler is
\* attached under "error".
C20_RegistryMatchesEmitter ==
  \A s \in Live :
    LET L == eventListeners[s]
        H == HandlersOf(s)
        Tag(name) == IF name = "confirmation" THEN "block" ELSE name
    IN /\ \A i \in 1..Len(L) :
            L[i].name # "error"
            => Cardinality({j \in 1..Len(H) : H[j].fn.name = L[i].name}) = 1
       /\ \A j \in 1..Len(H) :
            /\ H[j].tag # "error"
            /\ \E i \in 1..Len(L) :
                 /\ L[i].name # "error"
                 /\ L[i].fn = H[j].fn
                 /\ H[j].tag = Tag(L[i].name)

\* a listener was registered, notified and removed again: the registry holds
\* the error listener only and the emitter no handler of the subscription
C20_Witness ==
  /\ nextId["s1"] = 1
  /\ notifs > 0
  /\ NameSet(eventListeners["s1"]) = {"error"}
  /\ HandlersOf("s1") = <<>>
====
